---- MODULE Spec2Model ----
(***************************************************************************)
(* The Spotify ETL pipeline of spotify.py (Airflow DAG) and                *)
(* etl-spark/main.py (plain entry point): extract_spotify_data, transform  *)
(* and load, threaded together by the locator each stage returns.          *)
(*                                                                         *)
(* Character strings the code slices (locators, object keys, file names)   *)
(* are sequences of one-character strings, so that split, replace and      *)
(* rsplit are computed as Python computes them.                            *)
(***************************************************************************)
EXTENDS Bags, FiniteSets, Integers, Naturals, Sequences, TLC

VARIABLES
    pc,               \* position of the run
    data,             \* the document request.json() returned
    json_path,        \* locator returned by extract_spotify_data
    json_object_key,  \* locator transform() received
    derived,          \* the names transform() derived from its locator
    song_df,          \* the tabular dataset transform() built
    transformation,   \* locator returned by transform
    csv_object_key,   \* locator load() received
    load_result,      \* "None", "True", "False", or "raised" (exception escaped load)
    error,            \* the exception that ended a stage: [step, kind]
    start_count,      \* load's start_count
    reported,         \* end_count - start_count as printed by load
    objects,          \* blob storage: set of [bucket, key, body]
    local,            \* local scratch files: set of [dir, name]
    dataset,          \* the dataset Spotify_Data exists
    tableExists,      \* the table recently_played exists
    table,            \* rows of recently_played, a bag
    trace,            \* stages started in this run, in order
    table0,           \* table content when load() was entered
    uploads,          \* what upload_object_to_bucket returned, call by call
    created           \* load() created the dataset in this run

vars == << pc, data, json_path, json_object_key, derived, song_df,
           transformation, csv_object_key, load_result, error, start_count,
           reported, objects, local, dataset, tableExists, table, trace, table0,
           uploads, created >>

\* A value not yet there is the empty sequence, a value v that is there is << v >>;
\* a locator (a string) not yet there is the empty string.
Absent == << >>
Some(v) == << v >>
Get(opt) == opt[1]

\* ---------------------------------------------------------------- bounds
MaxItems == 2       \* longest item list of a raw document
MaxCopies == 3      \* most copies of one row the table is let to hold
MaxBucketLen == 3   \* longest bucket name of the locator specification
MaxNameLen == 3     \* longest basename (before .json) of the locator specification
MaxRewrites == 2    \* rewrites applied in succession by the rewrite specification

\* ---------------------------------------------------------------- strings
Slash == "/"
Dot == "."
RawDir == << "r", "a", "w" >>
TransformedDir == << "t", "r", "a", "n", "s", "f", "o", "r", "m", "e", "d" >>
JsonExt == << "j", "s", "o", "n" >>
CsvExt == << ".", "c", "s", "v" >>
SpotifyDataJson == << "_", "s", "p", "o", "t", "i", "f", "y", "_", "d", "a", "t", "a",
                      ".", "j", "s", "o", "n" >>

\* s[from..] starts with p
StartsWithAt(s, p, from) ==
    /\ from + Len(p) - 1 <= Len(s)
    /\ \A i \in 1..Len(p) : s[from + i - 1] = p[i]

\* str.split(sep) for a one-character sep: the list of segments
RECURSIVE SplitFrom(_, _, _, _)
SplitFrom(s, sep, i, cur) ==
    IF i > Len(s) THEN << cur >>
    ELSE IF s[i] = sep THEN << cur >> \o SplitFrom(s, sep, i + 1, << >>)
    ELSE SplitFrom(s, sep, i + 1, Append(cur, s[i]))

Split(s, sep) == SplitFrom(s, sep, 1, << >>)

\* str.replace(old, new), old non-empty: every non-overlapping occurrence,
\* leftmost first
RECURSIVE ReplaceFrom(_, _, _, _)
ReplaceFrom(s, old, new, i) ==
    IF i > Len(s) THEN << >>
    ELSE IF StartsWithAt(s, old, i) THEN new \o ReplaceFrom(s, old, new, i + Len(old))
    ELSE << s[i] >> \o ReplaceFrom(s, old, new, i + 1)

Replace(s, old, new) == ReplaceFrom(s, old, new, 1)

\* str.rsplit(sep, 1)[0] for a one-character sep: what precedes the last sep,
\* the whole string when there is none
RSplitHead(s, sep) ==
    LET at == { i \in 1..Len(s) : s[i] = sep }
    IN  IF at = {} THEN s
        ELSE LET last == CHOOSE i \in at : \A j \in at : j <= i
             IN  SubSeq(s, 1, last - 1)

Last(s) == s[Len(s)]

\* ---------------------------------------------------------------- transform: names
\* f"{bucket_name}/{object_key}"
FullObjectKey(bucket, key) == bucket \o << Slash >> \o key

\* object_key = json_object_key.replace(f"{bucket_name}/", "")
ObjectKey(locator, bucket) == Replace(locator, bucket \o << Slash >>, << >>)

\* file_name = full_object_key_splited[-1].rsplit('.',1)[0] + '.csv'
CsvFileName(basename) == RSplitHead(basename, Dot) \o CsvExt

DeriveNames(locator) ==
    LET full_object_key_splited == Split(locator, Slash)
        bucket == full_object_key_splited[1]
        file_name == CsvFileName(Last(full_object_key_splited))
        csv_key == TransformedDir \o << Slash >> \o file_name
    IN  [ bucket_name |-> bucket,
          object_key  |-> ObjectKey(locator, bucket),
          local_name  |-> Last(full_object_key_splited),
          file_name   |-> file_name,
          csv_key     |-> csv_key,
          full_object_key |-> FullObjectKey(bucket, csv_key) ]

\* ---------------------------------------------------------------- transform: rows
Entry(name, album, artists, duration, popularity, played) ==
    [ track |-> [ name |-> name,
                  album |-> [ name |-> album,
                              artists |-> [ i \in 1..Len(artists) |-> [ name |-> artists[i] ] ] ],
                  duration_ms |-> duration,
                  popularity |-> popularity ],
      played_at |-> played ]

\* entries of a play history; the last one has an album without artists
WellFormedEntries ==
    { Entry("A", "B", << "C" >>, 1000, 50, "2024-01-01T00:00:00Z"),
      Entry("D", "B", << "E", "C" >>, 2000, 60, "2024-01-02T00:00:00Z") }

Entries ==
    WellFormedEntries \cup { Entry("G", "H", << >>, 3000, 70, "2024-01-03T00:00:00Z") }

RECURSIVE SeqsUpTo(_, _)
SeqsUpTo(S, n) ==
    IF n = 0 THEN { << >> }
    ELSE LET shorter == SeqsUpTo(S, n - 1)
         IN  shorter \cup { Append(q, x) : q \in { r \in shorter : Len(r) = n - 1 }, x \in S }

\* what request.json() can be: a play history, or the API's error document
ErrorDoc == [ error |-> [ status |-> 401 ] ]
Documents == { [ items |-> q ] : q \in SeqsUpTo(Entries, MaxItems) } \cup { ErrorDoc }

\* variant: the last artist of the album instead of the first
ArtistNameLast(song) == Last(song.track.album.artists).name

\* song["track"]["album"]["artists"][0]["name"]
ArtistName(song) == song.track.album.artists[1].name

EmptyColumns ==
    [ song_names |-> << >>, album_names |-> << >>, artist_names |-> << >>,
      songs_duration_ms |-> << >>, songs_popularity |-> << >>, played_at_list |-> << >> ]

\* the loop over data["items"]: one append to each of the six lists per entry
RECURSIVE AppendItems(_, _, _)
AppendItems(items, i, lists) ==
    IF i > Len(items) THEN lists
    ELSE LET song == items[i]
         IN  AppendItems(items, i + 1,
                 [ song_names        |-> Append(lists.song_names, song.track.name),
                   album_names       |-> Append(lists.album_names, song.track.album.name),
                   artist_names      |-> Append(lists.artist_names, ArtistName(song)),
                   songs_duration_ms |-> Append(lists.songs_duration_ms, song.track.duration_ms),
                   songs_popularity  |-> Append(lists.songs_popularity, song.track.popularity),
                   played_at_list    |-> Append(lists.played_at_list, song.played_at) ])

\* artists[0] raises IndexError on an album without artists
RaisesIndexError(items) ==
    \E i \in 1..Len(items) : Len(items[i].track.album.artists) = 0

\* pd.DataFrame(song_dict, columns=[...]): row i takes element i of each list
DataFrame(lists) ==
    [ i \in 1..Len(lists.song_names) |->
        [ song_name   |-> lists.song_names[i],
          album_name  |-> lists.album_names[i],
          artist_name |-> lists.artist_names[i],
          duration_ms |-> lists.songs_duration_ms[i],
          popularity  |-> lists.songs_popularity[i],
          played_at   |-> lists.played_at_list[i] ] ]

Header == << "song_name", "album_name", "artist_name", "duration_ms", "popularity", "played_at" >>

\* song_df.to_csv(local_path, index=False): the header line, then one line per row
ToCsv(df) ==
    << Header >> \o
    [ i \in 1..Len(df) |->
        << df[i].song_name, df[i].album_name, df[i].artist_name,
           df[i].duration_ms, df[i].popularity, df[i].played_at >> ]

\* ---------------------------------------------------------------- blob storage
HasObject(objs, bucket, key) == \E o \in objs : o.bucket = bucket /\ o.key = key

BodyOf(objs, bucket, key) == (CHOOSE o \in objs : o.bucket = bucket /\ o.key = key).body

\* upload_object_to_bucket: True and the object stored, or False and nothing stored
Upload(objs, bucket, key, body, ok) ==
    IF ok
    THEN { o \in objs : ~(o.bucket = bucket /\ o.key = key) }
            \cup { [ bucket |-> bucket, key |-> key, body |-> body ] }
    ELSE objs

\* gs://<bucket>/<key>: the bucket is what precedes the first slash
UriBucket(locator) == Split(locator, Slash)[1]
UriKey(locator) == SubSeq(locator, Len(UriBucket(locator)) + 2, Len(locator))

\* ---------------------------------------------------------------- warehouse
skip_leading_rows == 1

\* the load job reads the file by column position under the six-column schema
ParseCsv(body) ==
    [ i \in 1..(Len(body) - skip_leading_rows) |->
        LET line == body[i + skip_leading_rows]
        IN  [ song_name |-> line[1], album_name |-> line[2], artist_name |-> line[3],
              duration_ms |-> line[4], popularity |-> line[5], played_at |-> line[6] ] ]

RECURSIVE SeqToBag(_)
SeqToBag(rows) ==
    IF rows = << >> THEN EmptyBag
    ELSE SetToBag({ Head(rows) }) (+) SeqToBag(Tail(rows))

\* variant: the load job truncates the table (WRITE_TRUNCATE)
BulkLoadTruncate(t, rows) == SeqToBag(rows)

\* load_table_from_uri with the default write disposition: rows are appended
BulkLoad(t, rows) == t (+) SeqToBag(rows)

\* variant: the rewrite selects every row (SELECT * without DISTINCT)
SelectAll(t) == t

\* variant: the rewrite drops one copy of each duplicated row
DropOneCopy(t) == [ r \in BagToSet(t) |-> IF t[r] > 1 THEN t[r] - 1 ELSE 1 ]

\* CREATE OR REPLACE TABLE t AS (SELECT DISTINCT * FROM t)
Distinct(t) == SetToBag(BagToSet(t))

\* SELECT COUNT(*) FROM t
Count(t) == BagCardinality(t)

\* variant: the rows the table lost instead of the rows it gained
NewRecordsSwapped(end_count, count0) == count0 - end_count

\* end_count - start_count
NewRecords(end_count, count0) == end_count - count0

IsDistinct(t) == \A r \in BagToSet(t) : CopiesIn(r, t) = 1

WithinCopies(t) == \A r \in BagToSet(t) : CopiesIn(r, t) <= MaxCopies

\* ---------------------------------------------------------------- the run
Buckets == { << "p", "o", "c" >>, RawDir }
Dates == { << "d", "1" >> }

RawFile(name) == [ dir |-> "raw", name |-> name ]
TransformedFile(name) == [ dir |-> "transformed", name |-> name ]

Raised(step, kind) == Some([ step |-> step, kind |-> kind ])

\* variant: every task pulls the value of the extraction task
XcomPullExtract(task_id) == json_path

\* ti.xcom_pull(task_ids=...): the value the named task returned
XcomPull(task_id) ==
    IF task_id = "extract_data_from_spotify_api" THEN json_path ELSE transformation

RunVars == << data, json_path, json_object_key, derived, song_df, transformation,
              csv_object_key, load_result, error, start_count, reported, trace,
              table0, uploads, created >>
Warehouse == << dataset, tableExists, table >>

Init ==
    /\ pc = "not_started"
    /\ data = Absent
    /\ json_path = Absent
    /\ json_object_key = Absent
    /\ derived = Absent
    /\ song_df = Absent
    /\ transformation = Absent
    /\ csv_object_key = Absent
    /\ load_result = "None"
    /\ error = Absent
    /\ start_count = 0
    /\ reported = Absent
    /\ objects = {}
    /\ local = {}
    /\ dataset \in BOOLEAN
    /\ tableExists \in BOOLEAN
    /\ tableExists => dataset
    /\ table = EmptyBag
    /\ trace = << >>
    /\ table0 = EmptyBag
    /\ uploads = << >>
    /\ created = FALSE

\* extract_spotify_data(bucket_name): the request, the local JSON file, the upload
\* whose result is dropped, and the locator returned
Extract(bucket, date, doc, request_ok, upload_ok) ==
    /\ pc = "not_started"
    /\ trace' = Append(trace, "extract")
    /\ IF ~request_ok
       THEN /\ pc' = "failed"
            /\ error' = Raised("request", "Error")
            /\ UNCHANGED << data, json_path, objects, local, uploads >>
       ELSE LET file_name == date \o SpotifyDataJson
                object_key == RawDir \o << Slash >> \o file_name
            IN  /\ data' = Some(doc)
                /\ local' = local \cup { RawFile(file_name) }
                /\ objects' = Upload(objects, bucket, object_key, doc, upload_ok)
                /\ uploads' = Append(uploads, upload_ok)
                /\ json_path' = FullObjectKey(bucket, object_key)
                /\ pc' = "extracted"
                /\ UNCHANGED error
    /\ UNCHANGED << json_object_key, derived, song_df, transformation, csv_object_key,
                    load_result, start_count, reported, table0, created >>
    /\ UNCHANGED Warehouse

\* transform(): download (any exception ends the process), parse, project,
\* to_csv, upload whose result is dropped, rmtree, and the locator returned.
\* download is "ok", "client" (an exception before the local file is opened)
\* or "blob" (an exception once download_to_filename has opened the local file).
Transform(download, upload_ok) ==
    /\ pc = "extracted"
    /\ trace' = Append(trace, "transform")
    /\ LET key == XcomPull("extract_data_from_spotify_api")
           names == DeriveNames(key)
           found == HasObject(objects, names.bucket_name, names.object_key)
       IN  /\ json_object_key' = key
           /\ derived' = Some(names)
           /\ IF download = "client"
              THEN /\ pc' = "failed"
                   /\ error' = Raised("download", "Error")
                   /\ UNCHANGED << song_df, transformation, objects, local, uploads >>
              ELSE IF download = "blob" \/ ~found
              THEN /\ pc' = "failed"
                   /\ error' = Raised("download", IF found THEN "Error" ELSE "NotFound")
                   /\ local' = local \cup { RawFile(names.local_name) }
                   /\ UNCHANGED << song_df, transformation, objects, uploads >>
              ELSE LET doc == BodyOf(objects, names.bucket_name, names.object_key)
                   IN  IF "items" \notin DOMAIN doc
                       THEN /\ pc' = "failed"
                            /\ error' = Raised("parse", "KeyError")
                            /\ local' = local \cup { RawFile(names.local_name) }
                            /\ UNCHANGED << song_df, transformation, objects, uploads >>
                       ELSE IF RaisesIndexError(doc.items)
                       THEN /\ pc' = "failed"
                            /\ error' = Raised("parse", "IndexError")
                            /\ local' = local \cup { RawFile(names.local_name) }
                            /\ UNCHANGED << song_df, transformation, objects, uploads >>
                       ELSE LET df == DataFrame(AppendItems(doc.items, 1, EmptyColumns))
                            IN  /\ song_df' = Some(df)
                                /\ objects' = Upload(objects, names.bucket_name,
                                                     names.csv_key, ToCsv(df), upload_ok)
                                /\ uploads' = Append(uploads, upload_ok)
                                \* shutil.rmtree("/home/airflow/spotify_data/")
                                /\ local' = {}
                                /\ transformation' = names.full_object_key
                                /\ pc' = "transformed"
                                /\ UNCHANGED error
    /\ UNCHANGED << data, json_path, csv_object_key, load_result, start_count,
                    reported, table0, created >>
    /\ UNCHANGED Warehouse

\* ---------------------------------------------------------------- load
\* load() ends by returning False: the except clauses print the exception
ReturnFalse(step, kind) ==
    /\ load_result' = "False"
    /\ error' = Raised(step, kind)
    /\ pc' = "loaded"

LoadFrame == << data, json_path, json_object_key, derived, song_df, transformation,
                objects, local, trace, uploads >>

\* xcom_pull, bigquery.Client() and client.get_dataset(): neither the client
\* creation nor a get_dataset error other than NotFound is inside a handler.
\* outcome is "ok", "client" (Client() raises) or "lookup" (get_dataset raises
\* something other than NotFound).
LoadGetDataset(outcome) ==
    /\ pc = "transformed"
    /\ trace' = Append(trace, "load")
    /\ csv_object_key' = XcomPull("transform_data")
    /\ table0' = table
    /\ IF outcome \in { "client", "lookup" }
       THEN /\ load_result' = "raised"
            /\ error' = Raised(IF outcome = "client" THEN "client" ELSE "get_dataset", "Error")
            /\ pc' = "failed"
       ELSE /\ pc' = IF dataset THEN "load_get_table" ELSE "load_create_dataset"
            /\ UNCHANGED << load_result, error >>
    /\ UNCHANGED << data, json_path, json_object_key, derived, song_df, transformation,
                    objects, local, uploads, start_count, reported, created >>
    /\ UNCHANGED Warehouse

\* except NotFound: client.create_dataset(dataset, timeout=30)
LoadCreateDataset(ok) ==
    /\ pc = "load_create_dataset"
    /\ IF ok
       THEN /\ dataset' = TRUE
            /\ created' = TRUE
            /\ pc' = "load_get_table"
            /\ UNCHANGED << load_result, error >>
       ELSE /\ ReturnFalse("create_dataset", "Error")
            /\ UNCHANGED << dataset, created >>
    /\ UNCHANGED << tableExists, table, csv_object_key, table0, start_count, reported >>
    /\ UNCHANGED LoadFrame

\* destination_table = client.get_table(table_id)
LoadGetTable(ok) ==
    /\ pc = "load_get_table"
    /\ IF ok /\ tableExists
       THEN /\ pc' = "load_count"
            /\ UNCHANGED << load_result, error >>
       ELSE ReturnFalse("get_table", IF tableExists THEN "Error" ELSE "NotFound")
    /\ UNCHANGED << csv_object_key, table0, start_count, reported, created >>
    /\ UNCHANGED Warehouse
    /\ UNCHANGED LoadFrame

\* SELECT COUNT(*) before the load
LoadStartCount(ok) ==
    /\ pc = "load_count"
    /\ IF ok
       THEN /\ start_count' = 0 + Count(table)
            /\ pc' = "load_bulk"
            /\ UNCHANGED << load_result, error >>
       ELSE /\ ReturnFalse("count", "Error")
            /\ UNCHANGED start_count
    /\ UNCHANGED << csv_object_key, table0, reported, created >>
    /\ UNCHANGED Warehouse
    /\ UNCHANGED LoadFrame

\* client.load_table_from_uri(uri, table_id, job_config).result()
LoadBulk(ok) ==
    /\ pc = "load_bulk"
    /\ LET bucket == UriBucket(csv_object_key)
           key == UriKey(csv_object_key)
           found == HasObject(objects, bucket, key)
       IN  IF ok /\ found
           THEN /\ table' = BulkLoad(table, ParseCsv(BodyOf(objects, bucket, key)))
                /\ WithinCopies(table')
                /\ pc' = "load_dedup"
                /\ UNCHANGED << load_result, error >>
           ELSE /\ ReturnFalse("load_job", IF found THEN "Error" ELSE "NotFound")
                /\ UNCHANGED table
    /\ UNCHANGED << dataset, tableExists, csv_object_key, table0, start_count, reported,
                    created >>
    /\ UNCHANGED LoadFrame

\* the CREATE OR REPLACE TABLE ... SELECT DISTINCT job: it replaces the table
\* or, failing, leaves it as it was
LoadDedup(ok) ==
    /\ pc = "load_dedup"
    /\ IF ok
       THEN /\ table' = Distinct(table)
            /\ pc' = "load_end_count"
            /\ UNCHANGED << load_result, error >>
       ELSE /\ ReturnFalse("dedup", "Error")
            /\ UNCHANGED table
    /\ UNCHANGED << dataset, tableExists, csv_object_key, table0, start_count, reported,
                    created >>
    /\ UNCHANGED LoadFrame

\* SELECT COUNT(*) after the rewrite, the printed difference, return True
LoadEndCount(ok) ==
    /\ pc = "load_end_count"
    /\ IF ok
       THEN /\ reported' = Some(NewRecords(0 + Count(table), start_count))
            /\ load_result' = "True"
            /\ pc' = "loaded"
            /\ UNCHANGED error
       ELSE /\ ReturnFalse("count", "Error")
            /\ UNCHANGED reported
    /\ UNCHANGED << csv_object_key, table0, start_count, created >>
    /\ UNCHANGED Warehouse
    /\ UNCHANGED LoadFrame

\* print(load_result) in main.py, the task `end` of the DAG: whatever load returned
End ==
    /\ pc = "loaded"
    /\ pc' = "done"
    /\ UNCHANGED << RunVars, objects, local >>
    /\ UNCHANGED Warehouse

\* the scheduler's next run: new time stamp, hence new object keys; the local
\* directory and the warehouse are what the last run left
NextRun ==
    /\ pc \in { "done", "failed" }
    /\ pc' = "not_started"
    /\ data' = Absent
    /\ json_path' = Absent
    /\ json_object_key' = Absent
    /\ derived' = Absent
    /\ song_df' = Absent
    /\ transformation' = Absent
    /\ csv_object_key' = Absent
    /\ load_result' = "None"
    /\ error' = Absent
    /\ start_count' = 0
    /\ reported' = Absent
    /\ objects' = {}
    /\ trace' = << >>
    /\ table0' = EmptyBag
    /\ uploads' = << >>
    /\ created' = FALSE
    /\ UNCHANGED local
    /\ UNCHANGED Warehouse

Next ==
    \/ \E bucket \in Buckets, date \in Dates, doc \in Documents,
          request_ok \in BOOLEAN, upload_ok \in BOOLEAN :
            Extract(bucket, date, doc, request_ok, upload_ok)
    \/ \E download \in { "ok", "client", "blob" }, upload_ok \in BOOLEAN :
            Transform(download, upload_ok)
    \/ \E outcome \in { "ok", "client", "lookup" } : LoadGetDataset(outcome)
    \/ \E ok \in BOOLEAN : LoadCreateDataset(ok)
    \/ \E ok \in BOOLEAN : LoadGetTable(ok)
    \/ \E ok \in BOOLEAN : LoadStartCount(ok)
    \/ \E ok \in BOOLEAN : LoadBulk(ok)
    \/ \E ok \in BOOLEAN : LoadDedup(ok)
    \/ \E ok \in BOOLEAN : LoadEndCount(ok)
    \/ End
    \/ NextRun

Spec == Init /\ [][Next]_vars

TypeOK ==
    /\ pc \in { "not_started", "extracted", "transformed", "load_create_dataset",
                "load_get_table", "load_count", "load_bulk", "load_dedup",
                "load_end_count", "loaded", "done", "failed" }
    /\ load_result \in { "None", "True", "False", "raised" }
    /\ WithinCopies(table)

\* ---------------------------------------------------------------- transform alone
\* transform() given any locator <bucket>/raw/<name>.json
StringsUpTo(chars, n) == SeqsUpTo(chars, n) \ { << >> }

BucketNames == StringsUpTo({ "r", "a", "w", "b" }, MaxBucketLen)
BaseNames == StringsUpTo({ "x", "." }, MaxNameLen)

RawKey(name) == RawDir \o << Slash >> \o name \o << Dot >> \o JsonExt
Locator(bucket, name) == FullObjectKey(bucket, RawKey(name))

InitRun ==
    /\ data = Absent
    /\ json_path = Absent
    /\ derived = Absent
    /\ song_df = Absent
    /\ transformation = Absent
    /\ csv_object_key = Absent
    /\ load_result = "None"
    /\ error = Absent
    /\ reported = Absent
    /\ objects = {}
    /\ local = {}
    /\ trace = << >>
    /\ uploads = << >>
    /\ created = FALSE

InitLocator ==
    /\ InitRun
    /\ pc = "extracted"
    /\ json_object_key \in { Locator(b, n) : b \in BucketNames, n \in BaseNames }
    /\ start_count = 0
    /\ dataset = TRUE
    /\ tableExists = TRUE
    /\ table = EmptyBag
    /\ table0 = EmptyBag

\* the names transform() derives, lines 118-121 and 177-189
TransformNames ==
    /\ pc = "extracted"
    /\ derived' = Some(DeriveNames(json_object_key))
    /\ pc' = "transformed"
    /\ UNCHANGED << data, json_path, json_object_key, song_df, transformation,
                    csv_object_key, load_result, error, start_count, reported, objects,
                    local, trace, table0, uploads, created >>
    /\ UNCHANGED Warehouse

NextLocator == TransformNames

SpecLocator == InitLocator /\ [][NextLocator]_vars

\* ---------------------------------------------------------------- the rewrite alone
RowOf(entry) == ParseCsv(ToCsv(DataFrame(AppendItems(<< entry >>, 1, EmptyColumns))))[1]

\* rows of the table: the entries above, and the first one played once more
TableRows ==
    { RowOf(e) : e \in WellFormedEntries
                       \cup { Entry("A", "B", << "C" >>, 1000, 50, "2024-01-02T00:00:00Z") } }

BagsOver(S) ==
    { [ r \in { x \in S : f[x] > 0 } |-> f[r] ] : f \in [ S -> 0..MaxCopies ] }

InitDedup ==
    /\ InitRun
    /\ pc = "load_dedup"
    /\ json_object_key = Absent
    /\ dataset = TRUE
    /\ tableExists = TRUE
    /\ table \in BagsOver(TableRows)
    /\ table0 = table
    /\ start_count = Count(table)

\* the rewrite job run once more; table0 is the table before this rewrite and
\* start_count the row count before the first one
Rewrite ==
    /\ pc = "load_dedup"
    /\ Len(trace) < MaxRewrites
    /\ table' = Distinct(table)
    /\ table0' = table
    /\ trace' = Append(trace, "dedup")
    /\ UNCHANGED << pc, data, json_path, json_object_key, derived, song_df,
                    transformation, csv_object_key, load_result, error, start_count,
                    reported, objects, local, dataset, tableExists, uploads, created >>

NextDedup == Rewrite

SpecDedup == InitDedup /\ [][NextDedup]_vars

\* ---------------------------------------------------------------- properties
Stages == << "extract", "transform", "load" >>

IsPrefix(p, q) == Len(p) <= Len(q) /\ \A i \in 1..Len(p) : p[i] = q[i]

Ran(stage) == \E i \in 1..Len(trace) : trace[i] = stage

\* the rows of the file load() was given, as the load job reads them
LoadedRows ==
    IF csv_object_key # Absent
       /\ HasObject(objects, UriBucket(csv_object_key), UriKey(csv_object_key))
    THEN ParseCsv(BodyOf(objects, UriBucket(csv_object_key), UriKey(csv_object_key)))
    ELSE << >>

LoadedSet == { LoadedRows[i] : i \in 1..Len(LoadedRows) }

\* C1: whenever load() has returned True the table holds no two rows equal in all
\* six columns, whatever it held before (duplicates of a failed run included), and
\* every row of the loaded file is in it exactly once.
C1_DistinctAfterLoad ==
    load_result = "True" =>
        /\ IsDistinct(table)
        /\ \A r \in LoadedSet : CopiesIn(r, table) = 1

\* load() returned True on a table that held duplicates and already held a row of
\* the file
C1_Witness ==
    /\ load_result = "True"
    /\ ~IsDistinct(table0)
    /\ \E r \in LoadedSet : CopiesIn(r, table0) >= 1

\* the steps whose exception leaves the stage: the request of extract, the
\* download and the parse of transform (exit() or uncaught), and the two calls of
\* load that no handler covers
StageOfStep(step) ==
    CASE step = "request" -> "extract"
      [] step \in { "download", "parse" } -> "transform"
      [] OTHER -> "load"

Escapes(step) == step \in { "request", "download", "parse", "client", "get_dataset" }

C2_Inv ==
    /\ IsPrefix(trace, Stages)
    /\ Ran("transform") => json_path # Absent /\ json_object_key = json_path
    /\ Ran("load") => transformation # Absent /\ csv_object_key = transformation
    /\ ~Ran("transform") => json_object_key = Absent
    /\ ~Ran("load") => csv_object_key = Absent
    /\ pc = "done" => trace = Stages /\ load_result \in { "True", "False" }
    /\ pc = "failed" <=> (error # Absent /\ Escapes(Get(error).step))
    /\ pc = "failed" => Last(trace) = StageOfStep(Get(error).step)

\* C2 (as amended): the stages start in the order extract, transform, load, each
\* after the previous one returned and with the locator it returned; the run is
\* done only after all three returned; a stage ended by an exception (or by exit())
\* makes the run failed and no stage starts after it. A failed upload and a load()
\* that returns False do not stop the run.
C2_StageOrder ==
    /\ []C2_Inv
    /\ [][pc = "failed" => (trace' = trace \/ pc' = "not_started")]_vars

\* a run is done although the upload of the CSV failed and load() returned False
C2_Witness ==
    /\ pc = "done"
    /\ uploads = << TRUE, FALSE >>
    /\ load_result = "False"

\* C2 (as stated): moreover a failed upload in extract or transform, or load()
\* returning False, makes the run failed with no later stage executed.
C2_Original ==
    /\ C2_Inv
    /\ (Len(uploads) >= 1 /\ ~uploads[1]) => ~Ran("transform")
    /\ (Len(uploads) >= 2 /\ ~uploads[2]) => ~Ran("load")
    /\ load_result = "False" => pc # "done"

Columns == { "song_name", "album_name", "artist_name", "duration_ms", "popularity",
             "played_at" }

\* C3: the dataset transform() builds from a document of N entries has N rows of
\* the six columns, row i holding the track name, album name, first album artist,
\* duration, popularity and play time of entry i; the file has the header and N
\* lines, and it is uploaded also when N = 0.
C3_Projection ==
    song_df # Absent =>
        LET df == Get(song_df)
            items == Get(data).items
            names == Get(derived)
        IN  /\ Len(df) = Len(items)
            /\ \A i \in 1..Len(items) :
                 /\ DOMAIN df[i] = Columns
                 /\ df[i].song_name = items[i].track.name
                 /\ df[i].album_name = items[i].track.album.name
                 /\ df[i].artist_name = Head(items[i].track.album.artists).name
                 /\ df[i].duration_ms = items[i].track.duration_ms
                 /\ df[i].popularity = items[i].track.popularity
                 /\ df[i].played_at = items[i].played_at
            /\ Len(uploads) = 2
            /\ uploads[2] =>
                 /\ HasObject(objects, names.bucket_name, names.csv_key)
                 /\ LET body == BodyOf(objects, names.bucket_name, names.csv_key)
                    IN  /\ Len(body) = Len(items) + 1
                        /\ body[1] = Header
                        /\ \A i \in 1..Len(items) :
                             body[i + 1] = << df[i].song_name, df[i].album_name,
                                              df[i].artist_name, df[i].duration_ms,
                                              df[i].popularity, df[i].played_at >>

\* a document without entries was transformed and its header-only file uploaded
C3_Witness ==
    /\ song_df = Some(<< >>)
    /\ uploads = << TRUE, TRUE >>
    /\ BodyOf(objects, Get(derived).bucket_name, Get(derived).csv_key) = << Header >>

\* C4 (as stated): a load() that found no dataset creates it and then loads and
\* returns True, unless the warehouse reports an error of its own.
C4_Claim ==
    (created /\ pc \in { "loaded", "done" }) =>
        \/ load_result = "True"
        \/ error # Absent /\ Get(error).kind = "Error"

\* C5: the rewrite applied a second time changes neither the content nor the row
\* count, and applied to a table without duplicates it changes nothing.
C5_Idempotent ==
    /\ Len(trace) >= 2 => table = table0 /\ Count(table) = Count(table0)
    /\ (Len(trace) >= 1 /\ IsDistinct(table0)) => table = table0

\* the rewrite ran twice on a table that held duplicates
C5_Witness ==
    /\ Len(trace) = 2
    /\ start_count > Count(table)

\* C6 (as stated): no exception of the warehouse client leaves load().
C6_Claim == load_result # "raised"

\* C7 (as stated): from <bucket>/raw/<name>.json transform() derives the object key
\* raw/<name>.json in <bucket>, the local basename <name>.json, the new key
\* transformed/<name>.csv and the locator <bucket>/transformed/<name>.csv.
C7_Claim ==
    derived # Absent =>
        \A b \in BucketNames, n \in BaseNames :
            json_object_key = Locator(b, n) =>
                LET csv == TransformedDir \o << Slash >> \o n \o CsvExt
                IN  /\ Get(derived).bucket_name = b
                    /\ Get(derived).object_key = RawKey(n)
                    /\ Get(derived).local_name = n \o << Dot >> \o JsonExt
                    /\ Get(derived).csv_key = csv
                    /\ Get(derived).full_object_key = b \o << Slash >> \o csv

\* C8: no step removes the last copy of a row of the table.
C8_Monotone == [][BagToSet(table) \subseteq BagToSet(table')]_vars

\* a successful load whose rewrite removed copies
C8_Witness ==
    /\ load_result = "True"
    /\ Count(table) < Count(table0)
    /\ BagToSet(table0) \subseteq BagToSet(table)

\* C9 (as stated): however transform() ended, no local scratch file is left.
C9_Claim == Ran("transform") => local = {}

\* C10: the number load() prints is the row count after the rewrite minus the row
\* count before the load; on a table without duplicates it is the number of
\* distinct rows of the file the table did not hold, hence not negative; it is
\* negative only when the table held duplicates.
C10_NewRecords ==
    reported # Absent =>
        LET n == Get(reported)
        IN  /\ n = Count(table) - Count(table0)
            /\ IsDistinct(table0) =>
                 /\ n = Cardinality(LoadedSet \ BagToSet(table0))
                 /\ n >= 0
            /\ n < 0 => ~IsDistinct(table0)

\* a file whose rows the duplicate-free table all held: 0 new records
C10_Witness ==
    /\ reported = Some(0)
    /\ IsDistinct(table0)
    /\ LoadedSet # {}

====
